---- MODULE Spec2Model ----
(***************************************************************************)
(* DevPulse: the cache-aside controller (githubController.js), the sync    *)
(* orchestrator (syncService.js), the store (databaseService.js over       *)
(* schema.sql), the gateway (githubService.js) and the cache-clear         *)
(* operation (cacheController.js), as one state machine.                   *)
(*                                                                         *)
(* Every handler is an async function: it is modelled step by step, one    *)
(* action per await (one gateway call or one store call), and the code     *)
(* that runs synchronously after the await belongs to the same action.     *)
(***************************************************************************)
EXTENDS Integers, Sequences, FiniteSets, TLC

VARIABLES
    now,            \* wall clock, in minutes (CURRENT_TIMESTAMP, new Date())
    users,          \* table users: a set of rows
    repositories,   \* table repositories: a set of rows
    events,         \* table events: a set of rows
    sync_logs,      \* table sync_logs: a set of rows
    nextUserId,     \* users.id SERIAL
    nextLogId,      \* sync_logs.id SERIAL
    cacheOps,       \* metricsService cacheOperationsTotal, by label
    errorsTotal,    \* metricsService errorsTotal{type="controller"}
    ops,            \* number of requests accepted so far
    proc            \* per request slot: position, locals, response, history

vars == <<now, users, repositories, events, sync_logs, nextUserId, nextLogId,
          cacheOps, errorsTotal, ops, proc>>

store == <<users, repositories, events, sync_logs, nextUserId, nextLogId>>

-----------------------------------------------------------------------------
(* Bounds of the model *)

MaxOps == 2         \* requests served in one behaviour
MaxRepos == 2       \* repository identifiers the gateway knows
MaxEvents == 2      \* event identifiers the gateway knows

(* Program constants *)

CacheProfile == 60
CacheRepos == 30
CacheEvents == 15
DefaultLimit == 30
MinLimit == 1
MaxLimit == 100

CACHE_CONFIG == [profile |-> CacheProfile, repos |-> CacheRepos, events |-> CacheEvents]

-----------------------------------------------------------------------------
(* Values *)

\* the slots a request can be in; requests in different slots overlap
Procs == {1, 2}

NULL == [nil |-> TRUE]

NoLog == 0

\* the handles requests are made with: the account alice, written in two ways
Handles == {"alice", "Alice"}

\* the handles sync requests are made with: also alyce, the handle the
\* account alice has after it was renamed
SyncHandles == Handles \cup {"alyce"}

\* The instants at which the clock is read: an age is then 0, the events TTL,
\* the profile TTL, or more than every TTL.
Instants == {0, CacheEvents, CacheProfile + CacheEvents}

ProfileNames == {"A", "B"}

QueryLimits == {<<>>, <<0>>, <<1>>, <<101>>}

GwFailures == {"UpstreamNotFound", "UpstreamRateLimited", "UpstreamUnavailable"}

Max(a, b) == IF a >= b THEN a ELSE b
Min(a, b) == IF a <= b THEN a ELSE b

-----------------------------------------------------------------------------
(* Errors: the model keeps the kind of an Error; the text is what the       *)
(* controller classifies.                                                  *)
(*   UpstreamNotFound     "Github user ${username} not found"              *)
(*   UpstreamRateLimited  "Github API rate limit exceeded or invalid token"*)
(*   UpstreamUnavailable  "Github API error: 5xx", "No response from ..."  *)
(*   PreconditionFailed   "User ${username} not found in database. Sync    *)
(*                         profile first."                                 *)
(*   PersistenceError     an error of pool.query                           *)
(*   TypeError            reading .id of null                              *)

MessageIncludesNotFound(err) == err \in {"UpstreamNotFound", "PreconditionFailed"}

\* variant: the rate-limit text is not recognised
MessageIncludesRateLimitNever(err) == FALSE

MessageIncludesRateLimit(err) == err = "UpstreamRateLimited"

\* the classification in the outer catch of getUser, getEvents, getRepositories
ErrorStatus(err) ==
    IF MessageIncludesNotFound(err) THEN 404
    ELSE IF MessageIncludesRateLimit(err) THEN 429
    ELSE 500

-----------------------------------------------------------------------------
(* Gateway (githubService.js).  The provider resolves a handle without     *)
(* regard to case and answers with the account's own login.                *)

Login(h) == IF h = "Alice" THEN "alice" ELSE h

\* the accounts of the provider: an account keeps its id when it is renamed
Renamed == {"alice", "alyce"}

GithubId(login) == IF login \in Renamed THEN 1 ELSE 2

\* getUserProfile: the DTOs the provider can answer with at time t; the
\* account's updated_at is the time of its last change at the provider: long
\* ago, or just now
GwProfiles(h, t) ==
    { [username |-> Login(h), github_id |-> GithubId(Login(h)),
       name |-> n, updated_at |-> u] : n \in ProfileNames, u \in {0, t} }

RepoIdsOf(login) == IF login \in Renamed THEN 1..MaxRepos ELSE {}

EventIdsOf(login) == IF login \in Renamed THEN 1..MaxEvents ELSE {}

\* a repository as getUserRepositories maps it; a starred repository was
\* updated later than every unstarred one
RepoDTO(i, s) ==
    [id |-> i, stargazers_count |-> s,
     updated_at |-> IF s = 0 THEN i ELSE MaxRepos + 1]

\* an event as getUserEvents maps it
EventDTO(i, ty) == [id |-> i, type |-> ty, created_at |-> i]

\* getUserRepositories: the lists the provider can answer with: the first k
\* repositories of the account, starred when k is odd
GwRepoLists(h) ==
    { { RepoDTO(i, k % 2) : i \in RepoIdsOf(Login(h)) \cap 1..k } : k \in 0..MaxRepos }

EventTypeOf(k) == IF k % 2 = 1 THEN "PushEvent" ELSE "WatchEvent"

\* getUserEvents: the lists the provider can answer with: the first k events
GwEventLists(h) ==
    { { EventDTO(i, EventTypeOf(k)) : i \in EventIdsOf(Login(h)) \cap 1..k } :
        k \in 0..MaxEvents }

-----------------------------------------------------------------------------
(* Store (databaseService.js over schema.sql) *)

\* variant: the lookup compares handles without regard to case
getUserByUsernameAnyCase(U, username) ==
    IF \E u \in U : u.username = Login(username)
    THEN CHOOSE u \in U : u.username = Login(username)
    ELSE NULL

\* SELECT * FROM users WHERE username = $1; result.rows[0] || null
getUserByUsername(U, username) ==
    IF \E u \in U : u.username = username
    THEN CHOOSE u \in U : u.username = username
    ELSE NULL

\* users.github_id UNIQUE: an INSERT of a new username with a known github_id
UpsertUserViolates(U, d) ==
    /\ ~ \E u \in U : u.username = d.username
    /\ \E u \in U : u.github_id = d.github_id

\* variant: ON CONFLICT ... DO UPDATE SET updated_at = EXCLUDED.updated_at
upsertUserRowExcluded(U, d, id, t) ==
    IF \E u \in U : u.username = d.username
    THEN [getUserByUsername(U, d.username) EXCEPT !.name = d.name,
                                                 !.updated_at = d.updated_at]
    ELSE [id |-> id, github_id |-> d.github_id, username |-> d.username,
          name |-> d.name, updated_at |-> d.updated_at]

\* INSERT INTO users ... ON CONFLICT (username) DO UPDATE SET name, ...,
\* updated_at = CURRENT_TIMESTAMP RETURNING *  -- the row returned
upsertUserRow(U, d, id, t) ==
    IF \E u \in U : u.username = d.username
    THEN [getUserByUsername(U, d.username) EXCEPT !.name = d.name, !.updated_at = t]
    ELSE [id |-> id, github_id |-> d.github_id, username |-> d.username,
          name |-> d.name, updated_at |-> d.updated_at]

\* the table after upsertUser
upsertUser(U, d, id, t) ==
    { u \in U : u.username # d.username } \cup { upsertUserRow(U, d, id, t) }

\* variant: ON CONFLICT (github_id) DO NOTHING
upsertRepositoriesDoNothing(R, userId, repos) ==
    R \cup { [github_id |-> d.id, user_id |-> userId,
              stargazers_count |-> d.stargazers_count,
              github_updated_at |-> d.updated_at] :
                d \in { x \in repos : ~ \E r \in R : r.github_id = x.id } }

\* INSERT INTO repositories ... ON CONFLICT (github_id) DO UPDATE SET name,
\* description, language, counts, github_updated_at  (user_id is not updated)
upsertRepositories(R, userId, repos) ==
    { r \in R : ~ \E d \in repos : d.id = r.github_id }
    \cup { IF \E r \in R : r.github_id = d.id
           THEN [(CHOOSE r \in R : r.github_id = d.id) EXCEPT
                    !.stargazers_count = d.stargazers_count,
                    !.github_updated_at = d.updated_at]
           ELSE [github_id |-> d.id, user_id |-> userId,
                 stargazers_count |-> d.stargazers_count,
                 github_updated_at |-> d.updated_at] : d \in repos }

\* variant: RETURNING answers a row for every event of the list
insertedEventsAll(E, userId, evs) ==
    { [github_id |-> d.id, user_id |-> userId, event_type |-> d.type,
       github_created_at |-> d.created_at] : d \in evs }

\* INSERT INTO events ... ON CONFLICT (github_id) DO NOTHING RETURNING id:
\* the rows inserted
insertedEvents(E, userId, evs) ==
    { [github_id |-> d.id, user_id |-> userId, event_type |-> d.type,
       github_created_at |-> d.created_at] :
         d \in { x \in evs : ~ \E e \in E : e.github_id = x.id } }

\* variant: ON CONFLICT (github_id) DO UPDATE instead of DO NOTHING
insertEventsOverwriting(E, userId, evs) ==
    { e \in E : ~ \E d \in evs : d.id = e.github_id }
    \cup { [github_id |-> d.id, user_id |-> userId, event_type |-> d.type,
            github_created_at |-> d.created_at] : d \in evs }

insertEvents(E, userId, evs) == E \cup insertedEvents(E, userId, evs)

\* INSERT INTO sync_logs (user_id, sync_type, status, records_synced, error_message)
\* variant: one log entry is kept per subject and sync type
createSyncLogPerType(L, id, userId, syncType, status, recordsSynced) ==
    { x \in L : ~ (x.user_id = userId /\ x.sync_type = syncType) }
    \cup { [id |-> id, user_id |-> userId, sync_type |-> syncType,
              status |-> status, records_synced |-> recordsSynced,
              error_message |-> "none"] }

createSyncLog(L, id, userId, syncType, status, recordsSynced) ==
    L \cup { [id |-> id, user_id |-> userId, sync_type |-> syncType,
              status |-> status, records_synced |-> recordsSynced,
              error_message |-> "none"] }

\* variant: the UPDATE has no WHERE clause
updateSyncLogEveryRow(L, id, status, recordsSynced, errorMessage) ==
    { [l EXCEPT !.status = status, !.records_synced = recordsSynced,
                !.error_message = errorMessage] : l \in L }

\* variant: ... WHERE id <= $4
updateSyncLogUpTo(L, id, status, recordsSynced, errorMessage) ==
    { IF l.id <= id
      THEN [l EXCEPT !.status = status, !.records_synced = recordsSynced,
                     !.error_message = errorMessage]
      ELSE l : l \in L }

\* UPDATE sync_logs SET status, records_synced, error_message WHERE id = $4
updateSyncLog(L, id, status, recordsSynced, errorMessage) ==
    { IF l.id = id
      THEN [l EXCEPT !.status = status, !.records_synced = recordsSynced,
                     !.error_message = errorMessage]
      ELSE l : l \in L }

\* sequences over S without repetition, of length n
RECURSIVE SeqsNoDup(_, _)
SeqsNoDup(S, n) ==
    IF n = 0 THEN { <<>> }
    ELSE UNION { { <<x>> \o s : s \in SeqsNoDup(S \ {x}, n - 1) } : x \in S }

Range(s) == { s[i] : i \in 1..Len(s) }

\* ORDER BY key DESC LIMIT limit: every answer SQL allows (ties in any order)
OrderByDescLimit(S, Key(_), limit) ==
    { s \in SeqsNoDup(S, Min(limit, Cardinality(S))) :
        /\ \A i \in 1..(Len(s) - 1) : Key(s[i]) >= Key(s[i + 1])
        /\ \A x \in S \ Range(s) : \A i \in 1..Len(s) : Key(s[i]) >= Key(x) }

RepoKey(r) == r.github_updated_at

EventKey(e) == e.github_created_at

\* variant: the query has no LIMIT
getRepositoriesByUserIdNoLimit(R, userId, limit) ==
    OrderByDescLimit({ r \in R : r.user_id = userId }, RepoKey,
                     Cardinality({ r \in R : r.user_id = userId }))

\* SELECT * FROM repositories WHERE user_id = $1 ORDER BY github_updated_at DESC LIMIT $2
getRepositoriesByUserId(R, userId, limit) ==
    OrderByDescLimit({ r \in R : r.user_id = userId }, RepoKey, limit)

\* SELECT * FROM events WHERE user_id = $1 ORDER BY github_created_at DESC LIMIT $2
getEventsByUserId(E, userId, limit) ==
    OrderByDescLimit({ e \in E : e.user_id = userId }, EventKey, limit)

\* databaseService.isDataStale is declared async: the caller gets a Promise
\* of the boolean, not the boolean
isDataStale(lastUpdated, maxAgeMinutes, t) ==
    [promise |-> TRUE, value |-> (t - lastUpdated) > maxAgeMinutes]

\* JavaScript truthiness of what isDataStale returned: an object is truthy
Truthy(v) == IF v.promise THEN TRUE ELSE v.value

-----------------------------------------------------------------------------
(* Requests.  A slot of proc holds one request at a time: its position     *)
(* (pc), the locals of the controller and of the orchestrator function it  *)
(* is in, the response once sent, and a history of what the request did.   *)

CacheHandlers == {"getUser", "getEvents", "getRepositories"}

ListHandlers == {"getEvents", "getRepositories"}

\* syncController.js and cacheController.refreshUserCache call one
\* orchestrator function and answer 200 or 500
SyncHandlers == {"syncProfile", "syncRepos", "syncEvents", "syncComplete"}

OrchOf(handler) ==
    CASE handler = "syncProfile" -> "syncUserProfile"
      [] handler = "syncRepos" -> "syncUserRepositories"
      [] handler = "syncEvents" -> "syncUserEvents"
      [] OTHER -> "syncUserComplete"

NoResponse == [status |-> 0, xcache |-> "none", data |-> <<>>, warning |-> FALSE]

NoSnap == [users |-> {}, repositories |-> {}, events |-> {},
           cacheOps |-> [hit |-> 0, miss |-> 0, stale |-> 0]]

Local0 ==
    [pc |-> "idle", handler |-> "none", username |-> "none",
     forceRefresh |-> FALSE, limit |-> DefaultLimit,
     query |-> <<>>,            \* req.query.limit as sent: <<>> when absent
     cachedUser |-> NULL,       \* getUser: cachedUser; getEvents, getRepositories: user
     path |-> "none",           \* branch of the controller: norecord, refresh, stale, hit
     dataUserId |-> 0,          \* the id the data is read with (user.id, newUser.id)
     orch |-> "none",           \* orchestrator function the handler called
     step |-> "none",           \* orchestrator function running: profile, repos, events
     user |-> NULL,             \* orchestrator local: user
     syncLog |-> NoLog,         \* orchestrator local: syncLog (its id)
     profile |-> NULL,          \* orchestrator local: githubData
     list |-> {},               \* orchestrator local: repos, events
     error |-> "none",          \* orchestrator local: error, in the catch block
     response |-> NoResponse,
     \* history of the request
     gwCalls |-> 0,             \* gateway calls made
     orchCalls |-> 0,           \* orchestrator functions the controller invoked
     dbFailed |-> FALSE,        \* a store call raised
     gwFailed |-> "none",       \* the failure the gateway raised
     steps |-> <<>>,            \* orchestrator functions started, in order
     failedStep |-> "none",     \* the orchestrator function that threw
     created |-> {},            \* ids of the sync log entries created
     orchOutcome |-> "none",    \* returned, threw
     thrown |-> "none",         \* the error the orchestrator threw to the handler
     count |-> 0,               \* what syncUserRepositories, syncUserEvents returned
     inserted |-> 0,            \* events newly inserted
     writes |-> <<>>,           \* store writes to users, repositories, events, in order
     snap |-> NoSnap]           \* the tables and counters when the request began

\* parseInt(req.query.limit) || 30: no limit (NaN) and 0 are falsy
parseLimit(q) == IF q = <<>> THEN DefaultLimit
                 ELSE IF q[1] = 0 THEN DefaultLimit ELSE q[1]

\* what a handler leaves behind once it has answered
Respond(l, status, xcache, data, warning) ==
    [l EXCEPT !.pc = "done", !.profile = NULL, !.list = {}, !.error = "none",
              !.response = [status |-> status, xcache |-> xcache,
                            data |-> data, warning |-> warning]]

\* an effect of a step on the request and on the metrics
Eff(l, cache, errs) == [l |-> l, cache |-> cache, errs |-> errs]

\* metricsService.recordCacheOperation, for each label of cache, in order
RECURSIVE recordCacheOperation(_, _)
recordCacheOperation(c, labels) ==
    IF labels = <<>> THEN c
    ELSE recordCacheOperation([c EXCEPT ![Head(labels)] = @ + 1], Tail(labels))

Apply(p, eff) ==
    /\ proc' = [proc EXCEPT ![p] = eff.l]
    /\ cacheOps' = recordCacheOperation(cacheOps, eff.cache)
    /\ errorsTotal' = errorsTotal + eff.errs

\* the catch block that ends a handler
OuterCatch(l, err) ==
    IF l.handler \in CacheHandlers
    THEN Eff(Respond(l, ErrorStatus(err), "none", <<>>, FALSE), <<>>, 1)
    ELSE Eff(Respond(l, 500, "none", <<>>, FALSE), <<>>, 0)

FirstPc(step) ==
    CASE step = "profile" -> "sp_fetch"
      [] step = "repos" -> "sr_getuser"
      [] OTHER -> "se_getuser"

FirstStep(orch) ==
    CASE orch = "syncUserRepositories" -> "repos"
      [] orch = "syncUserEvents" -> "events"
      [] OTHER -> "profile"

\* the handler calls an orchestrator function
CallOrch(l, orch) ==
    [l EXCEPT !.orch = orch, !.orchCalls = @ + 1,
              !.step = FirstStep(orch), !.pc = FirstPc(FirstStep(orch)),
              !.steps = <<FirstStep(orch)>>,
              !.user = NULL, !.syncLog = NoLog, !.error = "none"]

\* variant: after the refresh getUser answers with the record it had read
CtlReturnCached(l) ==
    CASE l.handler = "getUser" ->
            Eff(Respond(l, 200, "MISS", <<l.cachedUser>>, FALSE), <<>>, 0)
      [] l.handler \in ListHandlers /\ l.path = "norecord" ->
            Eff([l EXCEPT !.pc = "ctl_reread"], <<>>, 0)
      [] l.handler \in ListHandlers /\ l.path # "norecord" ->
            Eff([l EXCEPT !.pc = "ctl_data"], <<>>, 0)
      [] OTHER -> Eff(Respond(l, 200, "none", <<>>, FALSE), <<>>, 0)

\* the orchestrator function the handler called has returned
CtlReturn(l) ==
    CASE l.handler = "getUser" ->
            Eff(Respond(l, 200, "MISS", <<l.user>>, FALSE), <<>>, 0)
      [] l.handler \in ListHandlers /\ l.path = "norecord" ->
            Eff([l EXCEPT !.pc = "ctl_reread"], <<>>, 0)
      [] l.handler \in ListHandlers /\ l.path # "norecord" ->
            Eff([l EXCEPT !.pc = "ctl_data"], <<>>, 0)
      [] OTHER -> Eff(Respond(l, 200, "none", <<>>, FALSE), <<>>, 0)

\* variant: the inner catch is missing, every failure goes to the outer catch
CtlThrowNoFallback(l, err) == OuterCatch(l, err)

\* variant: the inner catch does not test cachedUser before falling back
CtlThrowAlwaysStale(l, err) ==
    IF l.handler = "getUser"
    THEN Eff(Respond(l, 200, "STALE", <<l.cachedUser>>, TRUE), <<"stale">>, 0)
    ELSE IF l.handler \in ListHandlers
    THEN Eff([l EXCEPT !.pc = "ctl_data", !.path = "stale"], <<"stale">>, 0)
    ELSE OuterCatch(l, err)

\* the orchestrator function the handler called has thrown err
CtlThrow(l, err) ==
    CASE l.handler = "getUser" ->
            IF l.cachedUser # NULL
            THEN Eff(Respond(l, 200, "STALE", <<l.cachedUser>>, TRUE), <<"stale">>, 0)
            ELSE OuterCatch(l, err)
      [] l.handler \in ListHandlers /\ l.path = "norecord" -> OuterCatch(l, err)
      [] l.handler \in ListHandlers /\ l.path # "norecord" ->
            Eff([l EXCEPT !.pc = "ctl_data", !.path = "stale"], <<"stale">>, 0)
      [] OTHER -> OuterCatch(l, err)

NextStep(step) == IF step = "profile" THEN "repos" ELSE "events"

\* syncUserProfile, syncUserRepositories or syncUserEvents returns; inside
\* syncUserComplete the next one is called
OrchReturn(l) ==
    IF l.orch = "syncUserComplete" /\ l.step # "events"
    THEN Eff([l EXCEPT !.step = NextStep(l.step), !.pc = FirstPc(NextStep(l.step)),
                       !.steps = Append(@, NextStep(l.step)),
                       !.user = IF l.step = "profile" THEN @ ELSE NULL,
                       !.syncLog = NoLog, !.error = "none"], <<>>, 0)
    ELSE CtlReturn([l EXCEPT !.orchOutcome = "returned", !.syncLog = NoLog])

\* variant: syncUserComplete goes on to the next function after a failure
OrchThrowContinues(l, err) ==
    IF l.orch = "syncUserComplete" /\ l.step # "events"
    THEN Eff([l EXCEPT !.failedStep = l.step, !.thrown = err,
                       !.step = NextStep(l.step), !.pc = FirstPc(NextStep(l.step)),
                       !.steps = Append(@, NextStep(l.step)),
                       !.user = NULL, !.syncLog = NoLog, !.error = "none"], <<>>, 0)
    ELSE CtlThrow([l EXCEPT !.orchOutcome = "threw", !.thrown = err,
                            !.failedStep = l.step, !.syncLog = NoLog], err)

\* syncUserProfile, syncUserRepositories or syncUserEvents throws err;
\* syncUserComplete rethrows it
OrchThrow(l, err) ==
    CtlThrow([l EXCEPT !.orchOutcome = "threw", !.thrown = err,
                       !.failedStep = l.step, !.syncLog = NoLog], err)

-----------------------------------------------------------------------------
(* The controller: getUser, getEvents, getRepositories *)

Begin(h, u, f, lim) ==
    [Local0 EXCEPT !.handler = h, !.username = u, !.forceRefresh = f, !.limit = lim,
                   !.snap = [users |-> users, repositories |-> repositories,
                             events |-> events, cacheOps |-> cacheOps]]

\* the subjects DELETE FROM users has removed: users.id is a serial, a row
\* that was deleted leaves its id unused
Cleared == nextUserId - 1 - Cardinality(users)

\* a slot takes a request; MaxOps requests are followed, and one more after
\* each cache clear that removed a subject
Free(p) == proc[p].pc \in {"idle", "done"} /\ ops < MaxOps + Cleared

\* a store call raises (PersistenceError) or answers; failures of the store
\* are followed for requests served alone, not for overlapping requests
StoreOutcomes ==
    IF \A p \in Procs \ {1} : proc[p].pc = "idle"
    THEN {"ok", "PersistenceError"}
    ELSE {"ok"}

\* forceRefresh || !cachedUser || dbService.isDataStale(cachedUser.updated_at, maxAge)
needsRefresh(forceRefresh, cachedUser, maxAge, t) ==
    \/ forceRefresh
    \/ cachedUser = NULL
    \/ Truthy(isDataStale(cachedUser.updated_at, maxAge, t))

\* GET /api/github/user/:username
GetUserStart(p) ==
    /\ Free(p)
    /\ \E u \in Handles, f \in BOOLEAN :
         proc' = [proc EXCEPT ![p] = [Begin("getUser", u, f, DefaultLimit)
                                        EXCEPT !.pc = "ctl_read"]]
    /\ ops' = ops + 1
    /\ UNCHANGED <<now, store, cacheOps, errorsTotal>>

\* variant: the controller stamps the record it reads
GetUserReadTouches(p) ==
    LET l == proc[p] IN
    /\ l.pc = "ctl_read" /\ l.handler = "getUser"
    /\ UNCHANGED <<now, repositories, events, sync_logs, nextUserId, nextLogId, ops>>
    /\ users' = { IF u.username = l.username THEN [u EXCEPT !.updated_at = now]
                  ELSE u : u \in users }
    /\ \E out \in StoreOutcomes :
         IF out # "ok"
         THEN Apply(p, OuterCatch([l EXCEPT !.dbFailed = TRUE], out))
         ELSE LET cachedUser == getUserByUsername(users, l.username)
                  l1 == [l EXCEPT !.cachedUser = cachedUser]
              IN  IF needsRefresh(l.forceRefresh, cachedUser, CACHE_CONFIG.profile, now)
                  THEN Apply(p, Eff(CallOrch(l1, "syncUserProfile"), <<"miss">>, 0))
                  ELSE Apply(p, Eff(Respond(l1, 200, "HIT", <<cachedUser>>, FALSE),
                                    <<"hit">>, 0))

\* getUser: await dbService.getUserByUsername, the refresh decision
GetUserRead(p) ==
    LET l == proc[p] IN
    /\ l.pc = "ctl_read" /\ l.handler = "getUser"
    /\ UNCHANGED <<now, store, ops>>
    /\ \E out \in StoreOutcomes :
         IF out # "ok"
         THEN Apply(p, OuterCatch([l EXCEPT !.dbFailed = TRUE], out))
         ELSE LET cachedUser == getUserByUsername(users, l.username)
                  l1 == [l EXCEPT !.cachedUser = cachedUser]
              IN  IF needsRefresh(l.forceRefresh, cachedUser, CACHE_CONFIG.profile, now)
                  THEN Apply(p, Eff(CallOrch(l1, "syncUserProfile"), <<"miss">>, 0))
                  ELSE Apply(p, Eff(Respond(l1, 200, "HIT", <<cachedUser>>, FALSE),
                                    <<"hit">>, 0))

\* GET /api/github/events/:username, GET /api/github/repos/:username
GetListStart(p) ==
    /\ Free(p)
    /\ \E h \in ListHandlers, u \in Handles, f \in BOOLEAN, q \in QueryLimits :
         LET l == [Begin(h, u, f, parseLimit(q)) EXCEPT !.query = q] IN
         proc' = [proc EXCEPT ![p] =
                    IF l.limit < MinLimit \/ l.limit > MaxLimit
                    THEN Respond(l, 400, "none", <<>>, FALSE)
                    ELSE [l EXCEPT !.pc = "ctl_read"]]
    /\ ops' = ops + 1
    /\ UNCHANGED <<now, store, cacheOps, errorsTotal>>

ListTtl(h) == IF h = "getEvents" THEN CACHE_CONFIG.events ELSE CACHE_CONFIG.repos

ListOrch(h) == IF h = "getEvents" THEN "syncUserEvents" ELSE "syncUserRepositories"

\* getEvents, getRepositories: await dbService.getUserByUsername, the decision
GetListRead(p) ==
    LET l == proc[p] IN
    /\ l.pc = "ctl_read" /\ l.handler \in ListHandlers
    /\ UNCHANGED <<now, store, ops>>
    /\ \E out \in StoreOutcomes :
         IF out # "ok"
         THEN Apply(p, OuterCatch([l EXCEPT !.dbFailed = TRUE], out))
         ELSE LET user == getUserByUsername(users, l.username)
                  l1 == [l EXCEPT !.cachedUser = user] IN
              IF user = NULL
              THEN Apply(p, Eff(CallOrch([l1 EXCEPT !.path = "norecord"],
                                         "syncUserComplete"), <<"miss">>, 0))
              ELSE IF needsRefresh(l.forceRefresh, user, ListTtl(l.handler), now)
              THEN Apply(p, Eff(CallOrch([l1 EXCEPT !.path = "refresh",
                                                    !.dataUserId = user.id],
                                         ListOrch(l.handler)), <<"miss">>, 0))
              ELSE Apply(p, Eff([l1 EXCEPT !.path = "hit", !.dataUserId = user.id,
                                           !.pc = "ctl_data"], <<"hit">>, 0))

\* getEvents, getRepositories without a record, after syncUserComplete:
\* const newUser = await dbService.getUserByUsername(username); newUser.id
GetListReread(p) ==
    LET l == proc[p] IN
    /\ l.pc = "ctl_reread"
    /\ UNCHANGED <<now, store, ops>>
    /\ \E out \in StoreOutcomes :
         IF out # "ok"
         THEN Apply(p, OuterCatch([l EXCEPT !.dbFailed = TRUE], out))
         ELSE LET newUser == getUserByUsername(users, l.username) IN
              IF newUser = NULL
              THEN Apply(p, OuterCatch(l, "TypeError"))
              ELSE Apply(p, Eff([l EXCEPT !.dataUserId = newUser.id,
                                          !.pc = "ctl_data"], <<>>, 0))

\* variant: the fallback answers with the header of the refresh it attempted
XCacheOfDecision(path) == IF path = "hit" THEN "HIT" ELSE "MISS"

\* res.setHeader("X-Cache", ...) of the list handlers, by the path taken
XCache(path) ==
    CASE path = "hit" -> "HIT"
      [] path = "stale" -> "STALE"
      [] OTHER -> "MISS"

ListRows(h, userId, limit) ==
    IF h = "getEvents" THEN getEventsByUserId(events, userId, limit)
    ELSE getRepositoriesByUserId(repositories, userId, limit)

\* variant: the read that serves the fallback is made again when it fails
GetListDataRetries(p) ==
    LET l == proc[p] IN
    /\ l.pc = "ctl_data"
    /\ UNCHANGED <<now, store, ops>>
    /\ \E out \in StoreOutcomes :
         IF out # "ok"
         THEN Apply(p, Eff([l EXCEPT !.dbFailed = TRUE, !.path = "stale"],
                           <<"stale">>, 0))
         ELSE \E rows \in ListRows(l.handler, l.dataUserId, l.limit) :
                Apply(p, Eff(Respond(l, 200, XCache(l.path), rows, l.path = "stale"),
                             <<>>, 0))

\* getEvents, getRepositories: await dbService.getEventsByUserId /
\* getRepositoriesByUserId and the answer; a failure inside the try block of
\* the refresh is caught there and the read is made again
GetListData(p) ==
    LET l == proc[p] IN
    /\ l.pc = "ctl_data"
    /\ UNCHANGED <<now, store, ops>>
    /\ \E out \in StoreOutcomes :
         IF out # "ok"
         THEN IF l.path = "refresh"
              THEN Apply(p, Eff([l EXCEPT !.dbFailed = TRUE, !.path = "stale"],
                                <<"stale">>, 0))
              ELSE Apply(p, OuterCatch([l EXCEPT !.dbFailed = TRUE], out))
         ELSE \E rows \in ListRows(l.handler, l.dataUserId, l.limit) :
                Apply(p, Eff(Respond(l, 200, XCache(l.path), rows, l.path = "stale"),
                             <<>>, 0))

-----------------------------------------------------------------------------
(* The orchestrator: syncUserProfile *)

GwOutcomes == {"ok"} \cup GwFailures

\* syncUserProfile: await githubService.getUserProfile(username)
SyncProfileFetch(p) ==
    LET l == [proc[p] EXCEPT !.gwCalls = @ + 1] IN
    /\ l.pc = "sp_fetch"
    /\ UNCHANGED <<now, store, ops>>
    /\ \E out \in GwOutcomes :
         IF out # "ok"
         THEN Apply(p, OrchThrow([l EXCEPT !.gwFailed = out], out))
         ELSE \E d \in GwProfiles(l.username, now) :
                Apply(p, Eff([l EXCEPT !.profile = d, !.pc = "sp_upsert"], <<>>, 0))

\* variant: the upsert leaves its row behind when the statement raises
SyncProfileUpsertPartial(p) ==
    LET l == proc[p] IN
    /\ l.pc = "sp_upsert"
    /\ UNCHANGED <<now, repositories, events, sync_logs, nextLogId, ops>>
    /\ users' = IF UpsertUserViolates(users, l.profile) THEN users
                ELSE upsertUser(users, l.profile, nextUserId, now)
    /\ nextUserId' = IF \E u \in users' : u.id = nextUserId
                     THEN nextUserId + 1 ELSE nextUserId
    /\ \E out \in StoreOutcomes :
         IF out # "ok" \/ UpsertUserViolates(users, l.profile)
         THEN Apply(p, OrchThrow([l EXCEPT !.dbFailed = TRUE], "PersistenceError"))
         ELSE Apply(p, Eff([l EXCEPT !.user = upsertUserRow(users, l.profile,
                                                           nextUserId, now),
                                     !.writes = Append(@, "profile"),
                                     !.pc = "sp_log"], <<>>, 0))

\* syncUserProfile: await dbService.upsertUser({username: githubData.username, ...})
SyncProfileUpsert(p) ==
    LET l == proc[p] IN
    /\ l.pc = "sp_upsert"
    /\ UNCHANGED <<now, repositories, events, sync_logs, nextLogId, ops>>
    /\ \E out \in StoreOutcomes :
         IF out # "ok" \/ UpsertUserViolates(users, l.profile)
         THEN /\ Apply(p, OrchThrow([l EXCEPT !.dbFailed = TRUE], "PersistenceError"))
              /\ UNCHANGED <<users, nextUserId>>
         ELSE /\ users' = upsertUser(users, l.profile, nextUserId, now)
              /\ nextUserId' = IF \E u \in users : u.username = l.profile.username
                               THEN nextUserId ELSE nextUserId + 1
              /\ Apply(p, Eff([l EXCEPT !.user = upsertUserRow(users, l.profile,
                                                              nextUserId, now),
                                        !.writes = Append(@, "profile"),
                                        !.pc = "sp_log"], <<>>, 0))

\* sync_logs.user_id REFERENCES users(id)
LogViolates(U, userId) == ~ \E u \in U : u.id = userId

\* syncUserProfile: syncLog = await dbService.createSyncLog(user.id, "profile",
\* "success", 1); return user.  In the catch block syncLog is still null.
SyncProfileLog(p) ==
    LET l == proc[p] IN
    /\ l.pc = "sp_log"
    /\ UNCHANGED <<now, users, repositories, events, nextUserId, ops>>
    /\ \E out \in StoreOutcomes :
         IF out # "ok" \/ LogViolates(users, l.user.id)
         THEN /\ Apply(p, OrchThrow([l EXCEPT !.dbFailed = TRUE], "PersistenceError"))
              /\ UNCHANGED <<sync_logs, nextLogId>>
         ELSE /\ sync_logs' = createSyncLog(sync_logs, nextLogId, l.user.id,
                                            "profile", "success", 1)
              /\ nextLogId' = nextLogId + 1
              /\ Apply(p, OrchReturn([l EXCEPT !.created = @ \cup {nextLogId}]))

-----------------------------------------------------------------------------
(* The orchestrator: syncUserRepositories *)

\* const user = await dbService.getUserByUsername(username); if (!user) throw
SyncReposGetUser(p) ==
    LET l == proc[p] IN
    /\ l.pc = "sr_getuser"
    /\ UNCHANGED <<now, store, ops>>
    /\ \E out \in StoreOutcomes :
         IF out # "ok"
         THEN Apply(p, OrchThrow([l EXCEPT !.dbFailed = TRUE], out))
         ELSE LET user == getUserByUsername(users, l.username) IN
              IF user = NULL
              THEN Apply(p, OrchThrow(l, "PreconditionFailed"))
              ELSE Apply(p, Eff([l EXCEPT !.user = user, !.pc = "sr_createlog"],
                                <<>>, 0))

\* syncLog = await dbService.createSyncLog(user.id, "repos", "started")
SyncReposCreateLog(p) ==
    LET l == proc[p] IN
    /\ l.pc = "sr_createlog"
    /\ UNCHANGED <<now, users, repositories, events, nextUserId, ops>>
    /\ \E out \in StoreOutcomes :
         IF out # "ok" \/ LogViolates(users, l.user.id)
         THEN /\ Apply(p, OrchThrow([l EXCEPT !.dbFailed = TRUE], "PersistenceError"))
              /\ UNCHANGED <<sync_logs, nextLogId>>
         ELSE /\ sync_logs' = createSyncLog(sync_logs, nextLogId, l.user.id,
                                            "repos", "started", 0)
              /\ nextLogId' = nextLogId + 1
              /\ Apply(p, Eff([l EXCEPT !.syncLog = nextLogId,
                                        !.created = @ \cup {nextLogId},
                                        !.pc = "sr_fetch"], <<>>, 0))

\* const repos = await githubService.getUserRepositories(username);
\* upsertRepositories answers 0 for an empty list without a query
SyncReposFetch(p) ==
    LET l == [proc[p] EXCEPT !.gwCalls = @ + 1] IN
    /\ l.pc = "sr_fetch"
    /\ UNCHANGED <<now, store, ops>>
    /\ \E out \in GwOutcomes :
         IF out # "ok"
         THEN Apply(p, Eff([l EXCEPT !.gwFailed = out, !.error = out,
                                     !.pc = "sr_catch"], <<>>, 0))
         ELSE \E repos \in GwRepoLists(l.username) :
                Apply(p, Eff([l EXCEPT !.list = repos, !.count = 0,
                                       !.pc = IF repos = {} THEN "sr_updlog"
                                              ELSE "sr_upsert"], <<>>, 0))

\* variant: storing the repositories stamps the subject as refreshed
SyncReposUpsertTouchesUser(p) ==
    LET l == proc[p] IN
    /\ l.pc = "sr_upsert"
    /\ UNCHANGED <<now, events, sync_logs, nextUserId, nextLogId, ops>>
    /\ \E out \in StoreOutcomes :
         IF out # "ok" \/ LogViolates(users, l.user.id)
         THEN /\ Apply(p, Eff([l EXCEPT !.dbFailed = TRUE, !.error = "PersistenceError",
                                        !.pc = "sr_catch"], <<>>, 0))
              /\ UNCHANGED <<users, repositories>>
         ELSE /\ repositories' = upsertRepositories(repositories, l.user.id, l.list)
              /\ users' = { IF u.id = l.user.id THEN [u EXCEPT !.updated_at = now]
                            ELSE u : u \in users }
              /\ Apply(p, Eff([l EXCEPT !.count = Cardinality(l.list),
                                        !.writes = Append(@, "repos"),
                                        !.pc = "sr_updlog"], <<>>, 0))

\* const syncedCount = await dbService.upsertRepositories(user.id, repos)
SyncReposUpsert(p) ==
    LET l == proc[p] IN
    /\ l.pc = "sr_upsert"
    /\ UNCHANGED <<now, users, events, sync_logs, nextUserId, nextLogId, ops>>
    /\ \E out \in StoreOutcomes :
         IF out # "ok" \/ LogViolates(users, l.user.id)
         THEN /\ Apply(p, Eff([l EXCEPT !.dbFailed = TRUE, !.error = "PersistenceError",
                                        !.pc = "sr_catch"], <<>>, 0))
              /\ UNCHANGED repositories
         ELSE /\ repositories' = upsertRepositories(repositories, l.user.id, l.list)
              /\ Apply(p, Eff([l EXCEPT !.count = Cardinality(l.list),
                                        !.writes = Append(@, "repos"),
                                        !.pc = "sr_updlog"], <<>>, 0))

\* await dbService.updateSyncLog(syncLog.id, "success", syncedCount); return
SyncReposUpdateLog(p) ==
    LET l == proc[p] IN
    /\ l.pc = "sr_updlog"
    /\ UNCHANGED <<now, users, repositories, events, nextUserId, nextLogId, ops>>
    /\ \E out \in StoreOutcomes :
         IF out # "ok"
         THEN /\ Apply(p, Eff([l EXCEPT !.dbFailed = TRUE, !.error = "PersistenceError",
                                        !.pc = "sr_catch"], <<>>, 0))
              /\ UNCHANGED sync_logs
         ELSE /\ sync_logs' = updateSyncLog(sync_logs, l.syncLog, "success",
                                            l.count, "none")
              /\ Apply(p, OrchReturn(l))

\* catch: if (syncLog) await dbService.updateSyncLog(syncLog.id, "failed", 0,
\* error.message); throw error
SyncReposCatch(p) ==
    LET l == proc[p] IN
    /\ l.pc = "sr_catch"
    /\ UNCHANGED <<now, users, repositories, events, nextUserId, nextLogId, ops>>
    /\ \E out \in StoreOutcomes :
         IF out # "ok"
         THEN /\ Apply(p, OrchThrow([l EXCEPT !.dbFailed = TRUE], "PersistenceError"))
              /\ UNCHANGED sync_logs
         ELSE /\ sync_logs' = updateSyncLog(sync_logs, l.syncLog, "failed", 0, l.error)
              /\ Apply(p, OrchThrow(l, l.error))

-----------------------------------------------------------------------------
(* The orchestrator: syncUserEvents *)

\* const user = await dbService.getUserByUsername(username); if (!user) throw
SyncEventsGetUser(p) ==
    LET l == proc[p] IN
    /\ l.pc = "se_getuser"
    /\ UNCHANGED <<now, store, ops>>
    /\ \E out \in StoreOutcomes :
         IF out # "ok"
         THEN Apply(p, OrchThrow([l EXCEPT !.dbFailed = TRUE], out))
         ELSE LET user == getUserByUsername(users, l.username) IN
              IF user = NULL
              THEN Apply(p, OrchThrow(l, "PreconditionFailed"))
              ELSE Apply(p, Eff([l EXCEPT !.user = user, !.pc = "se_createlog"],
                                <<>>, 0))

\* syncLog = await dbService.createSyncLog(user.id, "events", "started")
SyncEventsCreateLog(p) ==
    LET l == proc[p] IN
    /\ l.pc = "se_createlog"
    /\ UNCHANGED <<now, users, repositories, events, nextUserId, ops>>
    /\ \E out \in StoreOutcomes :
         IF out # "ok" \/ LogViolates(users, l.user.id)
         THEN /\ Apply(p, OrchThrow([l EXCEPT !.dbFailed = TRUE], "PersistenceError"))
              /\ UNCHANGED <<sync_logs, nextLogId>>
         ELSE /\ sync_logs' = createSyncLog(sync_logs, nextLogId, l.user.id,
                                            "events", "started", 0)
              /\ nextLogId' = nextLogId + 1
              /\ Apply(p, Eff([l EXCEPT !.syncLog = nextLogId,
                                        !.created = @ \cup {nextLogId},
                                        !.pc = "se_fetch"], <<>>, 0))

\* const events = await githubService.getUserEvents(username); insertEvents
\* answers 0 for an empty list without a query, and syncUserEvents returns
SyncEventsFetch(p) ==
    LET l == [proc[p] EXCEPT !.gwCalls = @ + 1] IN
    /\ l.pc = "se_fetch"
    /\ UNCHANGED <<now, store, ops>>
    /\ \E out \in GwOutcomes :
         IF out # "ok"
         THEN Apply(p, Eff([l EXCEPT !.gwFailed = out, !.error = out,
                                     !.pc = "se_catch"], <<>>, 0))
         ELSE \E evs \in GwEventLists(l.username) :
                IF evs = {}
                THEN Apply(p, OrchReturn([l EXCEPT !.count = 0, !.inserted = 0]))
                ELSE Apply(p, Eff([l EXCEPT !.list = evs, !.pc = "se_insert"], <<>>, 0))

\* const syncedCount = await dbService.insertEvents(user.id, events); return
\* syncedCount  -- the sync log entry is not updated on this path
SyncEventsInsert(p) ==
    LET l == proc[p] IN
    /\ l.pc = "se_insert"
    /\ UNCHANGED <<now, users, repositories, sync_logs, nextUserId, nextLogId, ops>>
    /\ \E out \in StoreOutcomes :
         IF out # "ok" \/ LogViolates(users, l.user.id)
         THEN /\ Apply(p, Eff([l EXCEPT !.dbFailed = TRUE, !.error = "PersistenceError",
                                        !.pc = "se_catch"], <<>>, 0))
              /\ UNCHANGED events
         ELSE /\ events' = insertEvents(events, l.user.id, l.list)
              /\ Apply(p, OrchReturn(
                    [l EXCEPT !.count = Cardinality(insertedEvents(events, l.user.id, l.list)),
                              !.inserted = Cardinality(insertedEvents(events, l.user.id, l.list)),
                              !.writes = Append(@, "events")]))

\* catch: if (syncLog) await dbService.updateSyncLog(syncLog.id, "failed", 0,
\* error.message); throw error
SyncEventsCatch(p) ==
    LET l == proc[p] IN
    /\ l.pc = "se_catch"
    /\ UNCHANGED <<now, users, repositories, events, nextUserId, nextLogId, ops>>
    /\ \E out \in StoreOutcomes :
         IF out # "ok"
         THEN /\ Apply(p, OrchThrow([l EXCEPT !.dbFailed = TRUE], "PersistenceError"))
              /\ UNCHANGED sync_logs
         ELSE /\ sync_logs' = updateSyncLog(sync_logs, l.syncLog, "failed", 0, l.error)
              /\ Apply(p, OrchThrow(l, l.error))

-----------------------------------------------------------------------------
(* syncController.js, cacheController.js *)

\* POST /api/sync/profile|repos|events|complete/:username,
\* POST /api/cache/refresh/:username
SyncStart(p) ==
    /\ Free(p)
    /\ \E h \in SyncHandlers, u \in SyncHandles :
         proc' = [proc EXCEPT ![p] =
                    CallOrch(Begin(h, u, FALSE, DefaultLimit), OrchOf(h))]
    /\ ops' = ops + 1
    /\ UNCHANGED <<now, store, cacheOps, errorsTotal>>

\* DELETE /api/cache/user/:username
ClearUserCacheStart(p) ==
    /\ Free(p)
    /\ \E u \in Handles :
         proc' = [proc EXCEPT ![p] = [Begin("clearUserCache", u, FALSE, DefaultLimit)
                                        EXCEPT !.pc = "cc_read"]]
    /\ ops' = ops + 1
    /\ UNCHANGED <<now, store, cacheOps, errorsTotal>>

\* clearUserCache: const user = await dbService.getUserByUsername(username)
ClearUserCacheRead(p) ==
    LET l == proc[p] IN
    /\ l.pc = "cc_read"
    /\ UNCHANGED <<now, store, ops>>
    /\ \E out \in StoreOutcomes :
         IF out # "ok"
         THEN Apply(p, OuterCatch([l EXCEPT !.dbFailed = TRUE], out))
         ELSE LET user == getUserByUsername(users, l.username) IN
              IF user = NULL
              THEN Apply(p, Eff(Respond(l, 404, "none", <<>>, FALSE), <<>>, 0))
              ELSE Apply(p, Eff([l EXCEPT !.cachedUser = user, !.pc = "cc_delete"],
                                <<>>, 0))

\* variant: the clear deletes the repositories and events of the subject
\* and leaves its users row
ClearUserCacheDeleteData(p) ==
    LET l == proc[p] IN
    /\ l.pc = "cc_delete"
    /\ UNCHANGED <<now, users, sync_logs, nextUserId, nextLogId, ops>>
    /\ \E out \in StoreOutcomes :
         IF out # "ok"
         THEN /\ Apply(p, OuterCatch([l EXCEPT !.dbFailed = TRUE], out))
              /\ UNCHANGED <<repositories, events>>
         ELSE /\ repositories' = { r \in repositories : r.user_id # l.cachedUser.id }
              /\ events' = { e \in events : e.user_id # l.cachedUser.id }
              /\ Apply(p, Eff(Respond(l, 200, "none", <<>>, FALSE), <<>>, 0))

\* variant: the foreign keys do not cascade, the users row alone is deleted
ClearUserCacheDeleteNoCascade(p) ==
    LET l == proc[p] IN
    /\ l.pc = "cc_delete"
    /\ UNCHANGED <<now, repositories, events, sync_logs, nextUserId, nextLogId, ops>>
    /\ \E out \in StoreOutcomes :
         IF out # "ok"
         THEN /\ Apply(p, OuterCatch([l EXCEPT !.dbFailed = TRUE], out))
              /\ UNCHANGED users
         ELSE /\ users' = { u \in users : u.id # l.cachedUser.id }
              /\ Apply(p, Eff(Respond(l, 200, "none", <<>>, FALSE), <<>>, 0))

\* clearUserCache: await pool.query("DELETE FROM users WHERE id = $1");
\* repositories, events and sync_logs go with it (ON DELETE CASCADE)
ClearUserCacheDelete(p) ==
    LET l == proc[p] IN
    /\ l.pc = "cc_delete"
    /\ UNCHANGED <<now, nextUserId, nextLogId, ops>>
    /\ \E out \in StoreOutcomes :
         IF out # "ok"
         THEN /\ Apply(p, OuterCatch([l EXCEPT !.dbFailed = TRUE], out))
              /\ UNCHANGED <<users, repositories, events, sync_logs>>
         ELSE /\ users' = { u \in users : u.id # l.cachedUser.id }
              /\ repositories' = { r \in repositories : r.user_id # l.cachedUser.id }
              /\ events' = { e \in events : e.user_id # l.cachedUser.id }
              /\ sync_logs' = { x \in sync_logs : x.user_id # l.cachedUser.id }
              /\ Apply(p, Eff(Respond(l, 200, "none", <<>>, FALSE), <<>>, 0))

Quiescent == \A p \in Procs : proc[p].pc \in {"idle", "done"}

\* time passes between requests (a request lasts seconds: the gateway client
\* times out after 10 s); the requests answered before are over
Tick ==
    /\ Quiescent
    /\ \E t \in Instants :
         /\ t > now
         /\ \A x \in Instants : x > now => x >= t
         /\ now' = t
    /\ proc' = [p \in Procs |-> Local0]
    /\ UNCHANGED <<store, cacheOps, errorsTotal, ops>>

-----------------------------------------------------------------------------

Init ==
    /\ now = 0
    /\ users = {}
    /\ repositories = {}
    /\ events = {}
    /\ sync_logs = {}
    /\ nextUserId = 1
    /\ nextLogId = 1
    /\ cacheOps = [hit |-> 0, miss |-> 0, stale |-> 0]
    /\ errorsTotal = 0
    /\ ops = 0
    /\ proc = [p \in Procs |-> Local0]

Step(p) ==
    \/ GetUserStart(p)
    \/ GetUserRead(p)
    \/ GetListStart(p)
    \/ GetListRead(p)
    \/ GetListReread(p)
    \/ GetListData(p)
    \/ SyncProfileFetch(p)
    \/ SyncProfileUpsert(p)
    \/ SyncProfileLog(p)
    \/ SyncReposGetUser(p)
    \/ SyncReposCreateLog(p)
    \/ SyncReposFetch(p)
    \/ SyncReposUpsert(p)
    \/ SyncReposUpdateLog(p)
    \/ SyncReposCatch(p)
    \/ SyncEventsGetUser(p)
    \/ SyncEventsCreateLog(p)
    \/ SyncEventsFetch(p)
    \/ SyncEventsInsert(p)
    \/ SyncEventsCatch(p)
    \/ SyncStart(p)
    \/ ClearUserCacheStart(p)
    \/ ClearUserCacheRead(p)
    \/ ClearUserCacheDelete(p)

\* requests served one after the other, with time passing between them
Next == Tick \/ Step(1)

Spec == Init /\ [][Next]_vars

\* the handle the overlapping requests are for
ConcHandle == "alice"

\* the handlers of the overlapping requests: getUser refreshes the profile,
\* getEvents of a subject without record runs the profile, repositories and
\* events steps (as getRepositories does)
ConcHandlers == {"getUser", "getEvents"}

\* GET /api/github/user/alice or GET /api/github/events/alice arrives while
\* the request of the other slot may be under way; each slot serves one
\* request
ConcStart(p) ==
    /\ proc[p].pc = "idle" /\ ops < MaxOps
    /\ p = 1 \/ proc[1].pc # "idle"
    /\ \E h \in ConcHandlers :
         proc' = [proc EXCEPT ![p] = [Begin(h, ConcHandle, FALSE, DefaultLimit)
                                        EXCEPT !.pc = "ctl_read"]]
    /\ ops' = ops + 1
    /\ UNCHANGED <<now, store, cacheOps, errorsTotal>>

\* DELETE /api/cache/user/alice arrives while the request of the other slot
\* may be under way
ConcClearStart(p) ==
    /\ proc[p].pc = "idle" /\ ops < MaxOps
    /\ p = 1 \/ proc[1].pc # "idle"
    /\ proc' = [proc EXCEPT ![p] =
                  [Begin("clearUserCache", ConcHandle, FALSE, DefaultLimit)
                     EXCEPT !.pc = "cc_read"]]
    /\ ops' = ops + 1
    /\ UNCHANGED <<now, store, cacheOps, errorsTotal>>

\* a step of a getUser, getEvents, getRepositories or clearUserCache request
StepConc(p) ==
    \/ ConcStart(p)
    \/ ConcClearStart(p)
    \/ ClearUserCacheRead(p)
    \/ ClearUserCacheDelete(p)
    \/ GetUserRead(p)
    \/ GetListRead(p)
    \/ GetListReread(p)
    \/ GetListData(p)
    \/ SyncProfileFetch(p)
    \/ SyncProfileUpsert(p)
    \/ SyncProfileLog(p)
    \/ SyncReposGetUser(p)
    \/ SyncReposCreateLog(p)
    \/ SyncReposFetch(p)
    \/ SyncReposUpsert(p)
    \/ SyncReposUpdateLog(p)
    \/ SyncReposCatch(p)
    \/ SyncEventsGetUser(p)
    \/ SyncEventsCreateLog(p)
    \/ SyncEventsFetch(p)
    \/ SyncEventsInsert(p)
    \/ SyncEventsCatch(p)

\* requests of the controller overlapping: the steps of the two slots
\* interleave at their awaits
NextConc == \E p \in Procs : StepConc(p)

SpecConc == Init /\ [][NextConc]_vars

-----------------------------------------------------------------------------
(* Notions the claims share *)

\* the request in slot p has been answered
Answered(p) == proc[p].pc = "done"

\* a request of the cache-aside controller that got past the limit check
CacheRequest(p) ==
    /\ Answered(p)
    /\ proc[p].handler \in CacheHandlers
    /\ proc[p].response.status # 400

Ttl(h) == IF h = "getUser" THEN CACHE_CONFIG.profile ELSE ListTtl(h)

\* the record the controller read is older than the TTL of the resource kind
ReadStale(p) ==
    /\ proc[p].cachedUser # NULL
    /\ now - proc[p].cachedUser.updated_at > Ttl(proc[p].handler)

\* the record the controller read is within the TTL of the resource kind
ReadFresh(p) ==
    /\ proc[p].cachedUser # NULL
    /\ now - proc[p].cachedUser.updated_at <= Ttl(proc[p].handler)

\* users, repositories and events are as they were when the request began
DataUnchanged(p) ==
    /\ users = proc[p].snap.users
    /\ repositories = proc[p].snap.repositories
    /\ events = proc[p].snap.events

ErrorResponse(r) ==
    /\ r.status \in {404, 429, 500}
    /\ r.xcache = "none"
    /\ r.data = <<>>
    /\ ~ r.warning

\* the rows a list request would have been served before the request began
SnapRows(p) ==
    IF proc[p].handler = "getEvents"
    THEN getEventsByUserId(proc[p].snap.events, proc[p].cachedUser.id, proc[p].limit)
    ELSE getRepositoriesByUserId(proc[p].snap.repositories, proc[p].cachedUser.id,
                                 proc[p].limit)

\* the response serves the record and rows that were cached before the request
ServesCached(p) ==
    IF proc[p].handler = "getUser"
    THEN proc[p].response.data = <<proc[p].cachedUser>>
    ELSE proc[p].response.data \in SnapRows(p)

-----------------------------------------------------------------------------
(* C1: for a subject with no record in the store, with the gateway and the *)
(* store answering, a request for any resource kind is answered MISS and   *)
(* the store holds the subject's record afterwards.                        *)
C1_NeverSyncedMiss ==
    \A p \in Procs :
        ( /\ CacheRequest(p)
          /\ proc[p].snap.users = {}
          /\ ~ proc[p].dbFailed
          /\ proc[p].gwFailed = "none" )
        => /\ proc[p].response.xcache = "MISS"
           /\ \E u \in users : u.username = Login(proc[p].username)

(* C2: a request without forceRefresh for a subject whose record is within *)
(* the TTL of the resource kind is answered HIT (the store answering),     *)
(* with no gateway call and no orchestrator invocation.                    *)
C2_FreshHit ==
    \A p \in Procs :
        ( /\ CacheRequest(p)
          /\ ~ proc[p].forceRefresh
          /\ ReadFresh(p)
          /\ ~ proc[p].dbFailed )
        => /\ proc[p].response.xcache = "HIT"
           /\ proc[p].gwCalls = 0
           /\ proc[p].orchCalls = 0

(* C3: a request for a subject whose record is older than the TTL, made    *)
(* while the gateway fails (the store answering), is answered STALE with   *)
(* status 200 and a warning, and users, repositories and events are as     *)
(* they were before the request.                                           *)
C3_StaleFallback ==
    \A p \in Procs :
        ( /\ CacheRequest(p)
          /\ ReadStale(p)
          /\ proc[p].gwFailed # "none"
          /\ ~ proc[p].dbFailed )
        => /\ proc[p].response.status = 200
           /\ proc[p].response.xcache = "STALE"
           /\ proc[p].response.warning
           /\ ServesCached(p)
           /\ DataUnchanged(p)

C3_Witness ==
    \E p \in Procs :
        /\ CacheRequest(p)
        /\ proc[p].handler = "getRepositories"
        /\ ReadStale(p)
        /\ proc[p].gwFailed = "UpstreamUnavailable"
        /\ ~ proc[p].dbFailed
        /\ proc[p].response.xcache = "STALE"
        /\ Len(proc[p].response.data) > 0

(* C4: when the controller found no record and the orchestrator's sync     *)
(* fails, the answer is an error response: no HIT, MISS or STALE, no data. *)
C4_MissFailurePropagates ==
    \A p \in Procs :
        ( /\ CacheRequest(p)
          /\ proc[p].cachedUser = NULL
          /\ proc[p].orchOutcome = "threw" )
        => ErrorResponse(proc[p].response)

C4_Witness ==
    \E p \in Procs :
        /\ CacheRequest(p)
        /\ proc[p].handler = "getEvents"
        /\ proc[p].cachedUser = NULL
        /\ proc[p].orchOutcome = "threw"
        /\ proc[p].failedStep = "events"
        /\ proc[p].response.status = 500

(* C5: once an orchestrator call has returned or thrown (the store         *)
(* answering), no sync log entry the call created has status "started".   *)
C5_NoLogLeftStarted ==
    \A p \in Procs :
        ( /\ proc[p].orchOutcome # "none"
          /\ ~ proc[p].dbFailed )
        => \A x \in sync_logs : x.id \in proc[p].created => x.status # "started"

(* C6: when syncUserProfile throws because the gateway fetch failed, a     *)
(* sync log entry of type profile with status "failed" and the error text  *)
(* has been written for the attempt.                                       *)
C6_ProfileFailureLogged ==
    \A p \in Procs :
        ( /\ proc[p].orchOutcome = "threw"
          /\ proc[p].failedStep = "profile"
          /\ proc[p].gwFailed # "none"
          /\ ~ proc[p].dbFailed )
        => \E x \in sync_logs : /\ x.sync_type = "profile"
                                /\ x.status = "failed"
                                /\ x.error_message = proc[p].thrown

(* C7: a store failure the orchestrator raised during a refresh is         *)
(* answered as an error, also when a cached record exists: never STALE,    *)
(* never a successful response.                                            *)
C7_PersistenceErrorPropagates ==
    \A p \in Procs :
        ( /\ CacheRequest(p)
          /\ proc[p].orchOutcome = "threw"
          /\ proc[p].thrown = "PersistenceError" )
        => ErrorResponse(proc[p].response)

(* C8: when the gateway reports that the subject does not exist (the store *)
(* answering), the request is answered 404 as an error, also when a cached *)
(* record exists: never STALE.                                             *)
C8_NotFoundPropagates ==
    \A p \in Procs :
        ( /\ CacheRequest(p)
          /\ proc[p].gwFailed = "UpstreamNotFound"
          /\ ~ proc[p].dbFailed )
        => /\ proc[p].response.status = 404
           /\ ErrorResponse(proc[p].response)

(* C9: when the gateway reports a rate limit (the store answering), the    *)
(* request is answered 429 as an error if the controller found no record,  *)
(* and STALE with the cached data and a warning if it found one.           *)
C9_RateLimited ==
    \A p \in Procs :
        ( /\ CacheRequest(p)
          /\ proc[p].gwFailed = "UpstreamRateLimited"
          /\ ~ proc[p].dbFailed )
        => IF proc[p].cachedUser = NULL
           THEN /\ proc[p].response.status = 429
                /\ ErrorResponse(proc[p].response)
           ELSE /\ proc[p].response.status = 200
                /\ proc[p].response.xcache = "STALE"
                /\ proc[p].response.warning
                /\ ServesCached(p)

C9_Witness ==
    \E p \in Procs :
        /\ CacheRequest(p)
        /\ proc[p].handler = "getEvents"
        /\ proc[p].cachedUser = NULL
        /\ proc[p].gwFailed = "UpstreamRateLimited"
        /\ proc[p].failedStep = "repos"
        /\ ~ proc[p].dbFailed
        /\ proc[p].response.status = 429

\* the place of an orchestrator function in syncUserComplete
StepIndex(step) ==
    CASE step = "profile" -> 1
      [] step = "repos" -> 2
      [] OTHER -> 3

CompleteOrder == <<"profile", "repos", "events">>

(* C10: syncUserComplete starts the profile sync, then the repositories    *)
(* sync, then the events sync, in that order; the store writes follow that *)
(* order and belong to functions already started; once a function has      *)
(* thrown, no later one is started, no further gateway call or store write *)
(* is made, and the caller gets the failure; it returns only after all     *)
(* three have run.                                                         *)
C10_CompleteInOrder ==
    \A p \in Procs :
        proc[p].orch = "syncUserComplete"
        => LET l == proc[p]
               n == Len(l.steps)
           IN /\ n \in 1..3
              /\ l.steps = SubSeq(CompleteOrder, 1, n)
              /\ l.gwCalls <= n
              /\ \A i \in 1..Len(l.writes) :
                     /\ StepIndex(l.writes[i]) <= n
                     /\ \A j \in 1..Len(l.writes) :
                            i < j => StepIndex(l.writes[i]) < StepIndex(l.writes[j])
              /\ l.failedStep # "none"
                    => /\ l.failedStep = l.steps[n]
                       /\ l.orchOutcome = "threw"
                       /\ l.pc = "done"
                       /\ l.response.status \in {404, 429, 500}
                       /\ l.response.data = <<>>
              /\ l.orchOutcome = "returned" => n = 3

C10_Witness ==
    \E p \in Procs :
        /\ Answered(p)
        /\ proc[p].handler = "syncComplete"
        /\ proc[p].orch = "syncUserComplete"
        /\ proc[p].orchOutcome = "threw"
        /\ proc[p].failedStep = "repos"
        /\ proc[p].gwFailed = "UpstreamUnavailable"
        /\ proc[p].steps = <<"profile", "repos">>
        /\ proc[p].writes = <<"profile">>
        /\ proc[p].gwCalls = 2
        /\ proc[p].response.status = 500
        /\ \E u \in users : u.username = Login(proc[p].username)

\* the sync log entry a completed orchestrator function of the request left
CompletedLog(p, syncType, recordsSynced) ==
    \E x \in sync_logs : /\ x.id \in proc[p].created
                          /\ x.sync_type = syncType
                          /\ x.status = "success"
                          /\ x.records_synced = recordsSynced
                          /\ x.error_message = "none"

\* the repositories the repositories step of the request stored are in the
\* table as fetched (the step returned their number)
ReposKept(p) ==
    \E repos \in GwRepoLists(proc[p].username) :
        /\ Cardinality(repos) = proc[p].count
        /\ \A d \in repos :
              \E r \in repositories : /\ r.github_id = d.id
                                       /\ r.stargazers_count = d.stargazers_count
                                       /\ r.github_updated_at = d.updated_at

(* C11: when a function of syncUserComplete throws, what the functions     *)
(* before it committed stays: the subject of the profile step and its      *)
(* success log entry, and, when the events step is the one that threw, the *)
(* repositories of the repositories step and its success log entry.        *)
C11_NoRollback ==
    \A p \in Procs :
        ( /\ proc[p].orch = "syncUserComplete"
          /\ proc[p].orchOutcome = "threw"
          /\ proc[p].failedStep # "profile" )
        => /\ \E u \in users : u.username = Login(proc[p].username)
           /\ CompletedLog(p, "profile", 1)
           /\ proc[p].failedStep = "events"
                 => /\ ReposKept(p)
                    /\ CompletedLog(p, "repos", proc[p].count)

C11_Witness ==
    \E p \in Procs :
        /\ Answered(p)
        /\ proc[p].orch = "syncUserComplete"
        /\ proc[p].orchOutcome = "threw"
        /\ proc[p].failedStep = "events"
        /\ proc[p].gwFailed = "UpstreamUnavailable"
        /\ proc[p].count = MaxRepos
        /\ proc[p].snap.users = {}
        /\ Cardinality(repositories) = MaxRepos

(* C12: syncUserRepositories and syncUserEvents, called for a handle that  *)
(* has no row in users (the store answering), throw the not-found error    *)
(* "User ... not found in database. Sync profile first.", make no gateway  *)
(* call, create no log entry and write nothing to repositories or events.  *)
C12_SubjectRequired ==
    \A p \in Procs :
        ( /\ Answered(p)
          /\ proc[p].orch \in {"syncUserRepositories", "syncUserEvents"}
          /\ ~ \E u \in proc[p].snap.users : u.username = proc[p].username
          /\ ~ proc[p].dbFailed )
        => /\ proc[p].orchOutcome = "threw"
           /\ proc[p].thrown = "PreconditionFailed"
           /\ MessageIncludesNotFound(proc[p].thrown)
           /\ proc[p].gwCalls = 0
           /\ proc[p].created = {}
           /\ proc[p].writes = <<>>
           /\ repositories = proc[p].snap.repositories
           /\ events = proc[p].snap.events

C12_Witness ==
    \E p \in Procs :
        /\ Answered(p)
        /\ proc[p].handler = "syncEvents"
        /\ proc[p].username = "Alice"
        /\ \E u \in users : u.username = "alice"
        /\ proc[p].thrown = "PreconditionFailed"
        /\ proc[p].gwCalls = 0
        /\ proc[p].response.status = 500

\* no two rows of the table have the same external identifier
UniqueGithubId(T) == \A a, b \in T : a.github_id = b.github_id => a = b

(* C13: for every events table the program reaches and every list the      *)
(* gateway can answer with, inserting the list a second time changes        *)
(* nothing and inserts no row; a row whose github_id is already stored is   *)
(* kept as it is, and no github_id is stored twice.                         *)
C13_InsertEventsIdempotent ==
    /\ UniqueGithubId(events)
    /\ \A h \in Handles : \A evs \in GwEventLists(h) :
         \A userId \in { u.id : u \in users } :
            LET once == insertEvents(events, userId, evs)
                twice == insertEvents(once, userId, evs)
            IN /\ twice = once
               /\ insertedEvents(once, userId, evs) = {}
               /\ events \subseteq once
               /\ UniqueGithubId(once)
               /\ Cardinality(once) = Cardinality(events)
                     + Cardinality({ d \in evs :
                                      ~ \E e \in events : e.github_id = d.id })

C13_Witness ==
    \E p \in Procs :
        /\ Answered(p)
        /\ proc[p].orch = "syncUserEvents"
        /\ proc[p].orchOutcome = "returned"
        /\ proc[p].writes = <<"events">>
        /\ proc[p].snap.events # {}
        /\ \E e \in events : e.github_id = 1 /\ e.event_type = "PushEvent"
        /\ \E e \in events : e.github_id = 2 /\ e.event_type = "WatchEvent"

(* C14: once syncUserEvents has returned, the count it returned is the      *)
(* number of fetched events whose github_id was not stored when the request *)
(* began, and these are exactly the rows the events table has gained.       *)
C14_CountsNewEvents ==
    \A p \in Procs :
        ( /\ proc[p].orchOutcome = "returned"
          /\ proc[p].step = "events" )
        => \E evs \in GwEventLists(proc[p].username) :
              LET new == { d \in evs :
                             ~ \E e \in proc[p].snap.events : e.github_id = d.id }
              IN /\ proc[p].count = Cardinality(new)
                 /\ proc[p].snap.events \subseteq events
                 /\ { e.github_id : e \in events \ proc[p].snap.events }
                       = { d.id : d \in new }
                 /\ Cardinality(events) = Cardinality(proc[p].snap.events)
                                             + proc[p].count

C14_Witness ==
    \E p \in Procs :
        /\ CacheRequest(p)
        /\ proc[p].handler = "getEvents"
        /\ proc[p].orch = "syncUserEvents"
        /\ proc[p].orchOutcome = "returned"
        /\ proc[p].count = 1
        /\ Cardinality(proc[p].snap.events) = 1
        /\ Cardinality(events) = 2
        /\ proc[p].response.xcache = "MISS"

(* C15: the repositories table never holds two rows with the same          *)
(* github_id, and right after syncUserRepositories has stored a fetched     *)
(* list, the row of every fetched repository carries the fetched values of  *)
(* its mutable fields.                                                      *)
C15_RepositoriesUpsert ==
    /\ UniqueGithubId(repositories)
    /\ \A p \in Procs :
         ( proc[p].pc = "sr_updlog" /\ proc[p].list # {} )
         => \A d \in proc[p].list :
               \E r \in repositories :
                  /\ r.github_id = d.id
                  /\ r.stargazers_count = d.stargazers_count
                  /\ r.github_updated_at = d.updated_at

C15_Witness ==
    \E p \in Procs :
        /\ proc[p].pc = "sr_updlog"
        /\ \E d \in proc[p].list : \E r \in proc[p].snap.repositories :
              /\ r.github_id = d.id
              /\ r.stargazers_count # d.stargazers_count
              /\ r.github_updated_at # d.updated_at
        /\ Cardinality(repositories) = Cardinality(proc[p].snap.repositories)

(* C16: no step lowers the updated_at of a users row that it keeps, and    *)
(* the users table never holds two rows with the same username.            *)
C16_LastRefreshedMonotone ==
    /\ [][ \A u \in users : \A v \in users' :
             v.username = u.username => v.updated_at >= u.updated_at ]_vars
    /\ [](\A a, b \in users : a.username = b.username => a = b)

C16_Witness ==
    \E p \in Procs :
        /\ Answered(p)
        /\ proc[p].orch = "syncUserProfile"
        /\ proc[p].orchOutcome = "returned"
        /\ \E u \in proc[p].snap.users : \E v \in users :
              /\ v.username = u.username
              /\ u.updated_at > 0
              /\ v.updated_at > u.updated_at

(* C17: after a profile request for an absent subject has been answered     *)
(* MISS, the stored subject's updated_at is the time of that sync.          *)
C17_FirstSyncStampsNow ==
    \A p \in Procs :
        ( /\ CacheRequest(p)
          /\ proc[p].handler = "getUser"
          /\ proc[p].cachedUser = NULL
          /\ proc[p].response.xcache = "MISS" )
        => \E u \in users : /\ u.username = Login(proc[p].username)
                            /\ u.updated_at = now

\* the timestamp a list is ordered by
KeyOf(h, row) == IF h = "getEvents" THEN row.github_created_at
                 ELSE row.github_updated_at

\* the rows of the subject with handle username in the table of handler h
RowsOf(h, username) ==
    { r \in (IF h = "getEvents" THEN events ELSE repositories) :
        \E u \in users : u.username = username /\ r.user_id = u.id }

(* C18: a repositories or events request answered 200 with limit L for a    *)
(* subject with N stored rows returns min(L, N) distinct rows of the        *)
(* subject, in descending order of github_updated_at (github_created_at     *)
(* for events), and no row left out is newer than a row returned.           *)
C18_LimitAndOrder ==
    \A p \in Procs :
        ( /\ CacheRequest(p)
          /\ proc[p].handler \in ListHandlers
          /\ proc[p].response.status = 200 )
        => LET h == proc[p].handler
               data == proc[p].response.data
               rows == RowsOf(h, proc[p].username)
           IN /\ Len(data) = Min(proc[p].limit, Cardinality(rows))
              /\ Range(data) \subseteq rows
              /\ Cardinality(Range(data)) = Len(data)
              /\ \A i \in 1..(Len(data) - 1) :
                    KeyOf(h, data[i]) >= KeyOf(h, data[i + 1])
              /\ \A x \in rows \ Range(data) : \A i \in 1..Len(data) :
                    KeyOf(h, data[i]) >= KeyOf(h, x)

C18_Witness ==
    \E p \in Procs :
        /\ CacheRequest(p)
        /\ proc[p].handler = "getRepositories"
        /\ proc[p].response.status = 200
        /\ proc[p].limit = 1
        /\ Cardinality(RowsOf("getRepositories", proc[p].username)) = MaxRepos
        /\ Len(proc[p].response.data) = 1
        /\ \E x \in repositories :
              x.github_updated_at < proc[p].response.data[1].github_updated_at

\* the positions at which the code of a request handler itself runs
ControllerPcs == {"idle", "done", "ctl_read", "ctl_reread", "ctl_data"}

(* C19: no step of getUser, getEvents or getRepositories themselves (the    *)
(* start, the reads, the decision with its HIT branch, the answer) changes  *)
(* users, repositories, events or sync_logs: the tables change only in      *)
(* steps of the orchestrator functions they call.                           *)
C19_ControllerWritesNothing ==
    [][ \A p \in Procs :
          ( /\ proc[p].pc \in ControllerPcs
            /\ proc'[p].handler \in CacheHandlers )
          => /\ users' = users
             /\ repositories' = repositories
             /\ events' = events
             /\ sync_logs' = sync_logs ]_vars

C19_Witness ==
    \E p \in Procs :
        /\ CacheRequest(p)
        /\ proc[p].handler = "getRepositories"
        /\ proc[p].response.xcache = "MISS"
        /\ proc[p].orchCalls = 1
        /\ proc[p].writes = <<"profile", "repos", "events">>
        /\ users # proc[p].snap.users
        /\ repositories # proc[p].snap.repositories
        /\ events # proc[p].snap.events

\* the cache operation that names the path of an answer
LabelOf(xcache) ==
    CASE xcache = "HIT" -> "hit"
      [] xcache = "STALE" -> "stale"
      [] OTHER -> "miss"

\* cache operations the request has recorded under a label
Recorded(p, label) == cacheOps[label] - proc[p].snap.cacheOps[label]

(* C20: a request answered HIT, MISS or STALE has recorded one cache        *)
(* operation, the one of its path: hit for HIT, miss for MISS, stale for    *)
(* STALE, and none under the other labels.                                  *)
C20_RecordsPathTaken ==
    \A p \in Procs :
        ( /\ CacheRequest(p)
          /\ proc[p].response.xcache # "none" )
        => \A label \in {"hit", "miss", "stale"} :
              Recorded(p, label)
                = IF label = LabelOf(proc[p].response.xcache) THEN 1 ELSE 0

-----------------------------------------------------------------------------
\* the sync log entries the orchestrator created for the subject during the
\* request of p that are in the store
LogsOfRequest(p) ==
    { x \in sync_logs :
        /\ x.id \in proc[p].created
        /\ \E u \in users : /\ u.username = Login(proc[p].username)
                            /\ x.user_id = u.id }

(* C21: every getUser, getEvents or getRepositories request answered with  *)
(* X-Cache MISS or STALE, no store call having failed, has created at      *)
(* least one sync log entry for the subject during the request.            *)
C21_RefreshIsLogged ==
    \A p \in Procs :
        ( /\ CacheRequest(p)
          /\ proc[p].response.xcache \in {"MISS", "STALE"}
          /\ ~ proc[p].dbFailed )
        => LogsOfRequest(p) # {}

(* C22: every 200 response of getUser, getEvents and getRepositories has   *)
(* X-Cache set to exactly one of HIT, MISS and STALE, and carries the       *)
(* warning field if and only if X-Cache is STALE.                           *)
C22_OnePathWarningIffStale ==
    \A p \in Procs :
        ( /\ CacheRequest(p)
          /\ proc[p].response.status = 200 )
        => /\ proc[p].response.xcache \in {"HIT", "MISS", "STALE"}
           /\ proc[p].response.warning <=> (proc[p].response.xcache = "STALE")

C22_Witness ==
    \E p \in Procs :
        /\ CacheRequest(p)
        /\ proc[p].handler = "getRepositories"
        /\ proc[p].response.status = 200
        /\ proc[p].response.xcache = "STALE"
        /\ proc[p].response.warning
        /\ proc[p].gwFailed = "UpstreamRateLimited"

\* the sync log entries the request of p created are in the store, for the
\* subject of the request
OwnLogs(p) ==
    /\ proc[p].created # {}
    /\ \A i \in proc[p].created :
          \E x \in sync_logs :
              /\ x.id = i
              /\ \E u \in users : /\ u.username = Login(proc[p].username)
                                  /\ x.user_id = u.id

\* the gateway and the store answered every call of the request of p
AllAnswered(p) == proc[p].gwFailed = "none" /\ ~ proc[p].dbFailed

(* C23: two overlapping getUser / getEvents requests for the same handle,  *)
(* the gateway and the store answering, under every interleaving of their   *)
(* steps: both have called the orchestrator; once both are answered users   *)
(* holds exactly one row for the handle, repositories and events hold no    *)
(* two rows with the same github_id, and each request has created its own   *)
(* sync log entries, that are in sync_logs and are not those of the other.  *)
C23_OverlappingRequests ==
    \A p, q \in Procs :
        ( /\ p # q
          /\ CacheRequest(p) /\ CacheRequest(q)
          /\ proc[p].username = proc[q].username
          /\ AllAnswered(p) /\ AllAnswered(q) )
        => /\ proc[p].orchCalls >= 1 /\ proc[q].orchCalls >= 1
           /\ Cardinality({ u \in users :
                                u.username = Login(proc[p].username) }) = 1
           /\ UniqueGithubId(repositories)
           /\ UniqueGithubId(events)
           /\ OwnLogs(p) /\ OwnLogs(q)
           /\ proc[p].created \cap proc[q].created = {}

\* both requests began before the subject had a record, and both refreshed
C23_Witness ==
    /\ \A p \in Procs :
          /\ CacheRequest(p)
          /\ proc[p].handler = "getEvents"
          /\ proc[p].snap.users = {}
          /\ AllAnswered(p)
          /\ proc[p].response.xcache = "MISS"
          /\ Cardinality(proc[p].created) = 3
    /\ Cardinality(users) = 1
    /\ Cardinality(events) = MaxEvents
    /\ Cardinality(sync_logs) = 6

(* C24: the sync log is append-only: no step of any operation, cache-clear *)
(* included, removes an entry of sync_logs.                                *)
C24_SyncLogAppendOnly ==
    [][ \A x \in sync_logs : \E y \in sync_logs' : y.id = x.id ]_vars

(* C25: for every record a getUser, getEvents or getRepositories request   *)
(* has read, what isDataStale hands to the refresh decision is a boolean,  *)
(* and the decision takes it as true exactly when the age of the record is *)
(* greater than the TTL of the resource kind (false at age = TTL).         *)
C25_StalenessIsBoolean ==
    \A p \in Procs :
        ( /\ proc[p].handler \in CacheHandlers
          /\ proc[p].cachedUser # NULL )
        => LET r == isDataStale(proc[p].cachedUser.updated_at,
                                Ttl(proc[p].handler), now)
           IN  /\ ~ r.promise
               /\ Truthy(r) <=> (now - proc[p].cachedUser.updated_at
                                    > Ttl(proc[p].handler))

\* the error kinds the orchestrator surfaces
ErrorKinds == GwFailures \cup {"PreconditionFailed", "PersistenceError"}

(* C26: when getUser, getEvents or getRepositories answers with the error  *)
(* response of an error the orchestrator threw, no other error kind is     *)
(* classified into that response: the five kinds get pairwise different    *)
(* responses.                                                              *)
C26_KindsDistinguished ==
    \A p \in Procs :
        ( /\ CacheRequest(p)
          /\ proc[p].thrown \in ErrorKinds
          /\ ErrorResponse(proc[p].response) )
        => \A k \in ErrorKinds \ {proc[p].thrown} :
              ErrorStatus(k) # proc[p].response.status

\* syncUserProfile threw to its caller during the request of p
ProfileThrew(p) ==
    /\ proc[p].orchOutcome = "threw"
    /\ proc[p].failedStep = "profile"

\* C27 as claimed: whenever syncUserProfile throws, users is as it was when
\* the request began
C27_FailedProfileLeavesSubject ==
    \A p \in Procs : ProfileThrew(p) => users = proc[p].snap.users

(* C27, amended: when syncUserProfile throws because the gateway call or   *)
(* the upsert failed, users is as it was when the request began; when it   *)
(* throws after the upsert, it is the write of the log entry that failed,  *)
(* and users holds the whole upserted row.                                 *)
C27_FailedUpsertLeavesSubject ==
    \A p \in Procs :
        ProfileThrew(p)
        => IF "profile" \in Range(proc[p].writes)
           THEN /\ proc[p].dbFailed
                /\ proc[p].gwFailed = "none"
                /\ proc[p].created = {}
                /\ proc[p].user \in users
           ELSE users = proc[p].snap.users

\* the upsert raised for a subject that has a record
C27_Witness ==
    \E p \in Procs :
        /\ Answered(p)
        /\ ProfileThrew(p)
        /\ proc[p].gwCalls = 1
        /\ proc[p].gwFailed = "none"
        /\ proc[p].dbFailed
        /\ proc[p].writes = <<>>
        /\ proc[p].snap.users # {}
        /\ users = proc[p].snap.users

\* the steps of syncUserRepositories and syncUserEvents
SyncListPcs ==
    {"sr_getuser", "sr_createlog", "sr_fetch", "sr_upsert", "sr_updlog", "sr_catch",
     "se_getuser", "se_createlog", "se_fetch", "se_insert", "se_catch"}

(* C28: no step of syncUserRepositories or syncUserEvents changes users    *)
(* (no field of any subject, updated_at included); users changes only in   *)
(* the upsert of syncUserProfile and in the delete of clearUserCache, and  *)
(* a row leaves users only in the delete of clearUserCache.                *)
C28_SubjectFrame ==
    [][ /\ \A p \in Procs :
              (proc[p].pc \in SyncListPcs /\ proc'[p] # proc[p]) => users' = users
        /\ users' # users
              => \E p \in Procs : /\ proc'[p] # proc[p]
                                  /\ proc[p].pc \in {"sp_upsert", "cc_delete"}
        /\ (\E u \in users : \A v \in users' : v.id # u.id)
              => \E p \in Procs : /\ proc'[p] # proc[p]
                                  /\ proc[p].pc = "cc_delete" ]_vars

\* syncUserRepositories stored repositories at a later instant than the
\* profile was stored, and the subject is as it was
C28_Witness ==
    \E p \in Procs :
        /\ Answered(p)
        /\ proc[p].orch = "syncUserRepositories"
        /\ proc[p].orchOutcome = "returned"
        /\ proc[p].count = MaxRepos
        /\ repositories # proc[p].snap.repositories
        /\ users = proc[p].snap.users
        /\ \E u \in users : u.username = proc[p].username /\ u.updated_at < now

\* the limit the client sent is outside MinLimit..MaxLimit
LimitOutOfRange(p) ==
    /\ proc[p].query # <<>>
    /\ (proc[p].query[1] < MinLimit \/ proc[p].query[1] > MaxLimit)

(* C29: a getEvents or getRepositories request whose limit query parameter *)
(* is outside 1..100 is answered 400 without a store read, a gateway call, *)
(* an orchestrator call or a cache operation recorded; a request that is   *)
(* not answered 400 reads with a limit within 1..100.                      *)
C29_LimitOutOfRangeRejected ==
    \A p \in Procs :
        ( /\ Answered(p)
          /\ proc[p].handler \in ListHandlers )
        => /\ LimitOutOfRange(p)
                => /\ proc[p].response.status = 400
                   /\ proc[p].cachedUser = NULL
                   /\ proc[p].gwCalls = 0
                   /\ proc[p].orchCalls = 0
                   /\ cacheOps = proc[p].snap.cacheOps
           /\ proc[p].response.status # 400
                => proc[p].limit \in MinLimit..MaxLimit

\* the store holds nothing of the subject the request of p is for
NothingOfSubject(p) ==
    /\ ~ \E u \in users : u.username = proc[p].username
    /\ ~ \E r \in repositories : r.user_id = proc[p].cachedUser.id
    /\ ~ \E e \in events : e.user_id = proc[p].cachedUser.id

\* the request of p began after a cache clear had removed the subject, no
\* subject having been stored since
AfterClear(p) ==
    /\ proc[p].snap.users = {}
    /\ Cleared >= 1

(* C30: when clearUserCache has answered 200 for a handle, users holds no  *)
(* row for the handle and repositories and events hold no row of the       *)
(* subject it read; a getUser, getEvents or getRepositories request that    *)
(* begins after the clear, the controller's read answering, finds no       *)
(* record, calls syncUserProfile (getUser) or syncUserComplete (the list   *)
(* handlers), and is answered MISS or with an error, never HIT or STALE.   *)
C30_ClearThenNoRecordMiss ==
    \A p \in Procs :
        /\ ( /\ Answered(p)
             /\ proc[p].handler = "clearUserCache"
             /\ proc[p].response.status = 200 )
           => NothingOfSubject(p)
        /\ ( /\ CacheRequest(p)
             /\ AfterClear(p)
             /\ proc[p].orchCalls >= 1 )
           => /\ proc[p].cachedUser = NULL
              /\ proc[p].orch = IF proc[p].handler = "getUser"
                                THEN "syncUserProfile" ELSE "syncUserComplete"
              /\ proc[p].response.xcache \notin {"HIT", "STALE"}
              /\ proc[p].response.status = 200 => proc[p].response.xcache = "MISS"
        /\ ( /\ CacheRequest(p)
             /\ AfterClear(p)
             /\ proc[p].orchCalls = 0 )
           => /\ proc[p].dbFailed
              /\ proc[p].response.status = 500

\* the subject was synced, cleared, and getEvents then refreshed it whole
C30_Witness ==
    \E p \in Procs :
        /\ CacheRequest(p)
        /\ AfterClear(p)
        /\ proc[p].handler = "getEvents"
        /\ proc[p].username = "alice"
        /\ proc[p].response.status = 200
        /\ proc[p].response.xcache = "MISS"
        /\ proc[p].steps = <<"profile", "repos", "events">>
        /\ \E u \in users : u.username = "alice" /\ u.id = 2

-----------------------------------------------------------------------------
\* the response carries what the store holds for the request once the
\* refresh is done
ServesRefreshed(p) ==
    IF proc[p].handler = "getUser"
    THEN /\ Len(proc[p].response.data) = 1
         /\ proc[p].response.data[1] \in users
         /\ proc[p].response.data[1].username = proc[p].username
    ELSE proc[p].response.data
            \in ListRows(proc[p].handler, proc[p].cachedUser.id, proc[p].limit)

(* C31: a getUser, getEvents or getRepositories request that read a record *)
(* and was forced or found it older than the TTL has called the            *)
(* orchestrator exactly once and is not answered HIT; when the orchestrator *)
(* function returned and the store answered every call, the answer is 200  *)
(* MISS without warning and carries the rows the store holds after the      *)
(* refresh.                                                                 *)
C31_RefreshOnceThenMiss ==
    \A p \in Procs :
        ( /\ CacheRequest(p)
          /\ proc[p].cachedUser # NULL
          /\ (proc[p].forceRefresh \/ ReadStale(p)) )
        => /\ proc[p].orchCalls = 1
           /\ proc[p].response.xcache # "HIT"
           /\ (proc[p].orchOutcome = "returned" /\ ~ proc[p].dbFailed)
                 => /\ proc[p].response.status = 200
                    /\ proc[p].response.xcache = "MISS"
                    /\ ~ proc[p].response.warning
                    /\ ServesRefreshed(p)

\* a forced getUser of a fresh record answers with the profile as refreshed
C31_Witness ==
    \E p \in Procs :
        /\ CacheRequest(p)
        /\ proc[p].handler = "getUser"
        /\ proc[p].forceRefresh
        /\ ReadFresh(p)
        /\ proc[p].orchOutcome = "returned"
        /\ proc[p].response.xcache = "MISS"
        /\ proc[p].response.data[1].name # proc[p].cachedUser.name
        /\ proc[p].response.data[1] \in users

\* the refresh decision a getUser, getEvents or getRepositories request for
\* the resource and handle of p, not forced, makes on the store as it is
NextNeedsRefresh(p) ==
    needsRefresh(FALSE, getUserByUsername(users, proc[p].username),
                 Ttl(proc[p].handler), now)

(* C32: when getEvents or getRepositories has answered MISS after a        *)
(* successful refresh for a subject whose record was older than the TTL,   *)
(* a request for the same resource and handle at the same instant, not     *)
(* forced, decides on HIT: its refresh decision is false.                  *)
C32_RepopulatedAfterMiss ==
    \A p \in Procs :
        ( /\ CacheRequest(p)
          /\ proc[p].handler \in ListHandlers
          /\ ReadStale(p)
          /\ proc[p].orchOutcome = "returned"
          /\ proc[p].response.xcache = "MISS" )
        => ~ NextNeedsRefresh(p)

(* C33: in every step, a sync log entry that stays in sync_logs is either  *)
(* left as it is or goes from status started to success or failed: its     *)
(* status changes at most once, and an entry that is success or failed is  *)
(* not modified.                                                           *)
C33_LogStatusOnce ==
    [][ \A x \in sync_logs : \A y \in sync_logs' :
            y.id = x.id => \/ y = x
                           \/ /\ x.status = "started"
                              /\ y.status \in {"success", "failed"} ]_vars

\* a started entry was set to failed while an older success entry is kept
C33_Witness ==
    \E p \in Procs : \E x, y \in sync_logs :
        /\ Answered(p)
        /\ x.id \in proc[p].created
        /\ x.status = "failed"
        /\ x.error_message # "none"
        /\ y.id < x.id
        /\ y.status = "success"
        /\ y.error_message = "none"

(* C34: whenever syncUserProfile has fetched the profile and is about to   *)
(* upsert it, the upsert raises no uniqueness violation, whatever rows     *)
(* users holds: with the store answering, syncUserProfile succeeds.        *)
C34_UpsertNeverViolates ==
    \A p \in Procs :
        proc[p].pc = "sp_upsert" => ~ UpsertUserViolates(users, proc[p].profile)

(* C35: once the profile step of syncUserComplete has returned, the        *)
(* repositories and events steps of the same call do not throw the         *)
(* not-found error of their lookup by the requested handle (no other       *)
(* request runs in between, the store answering).                          *)
C35_LookupByRequestedHandle ==
    \A p \in Procs :
        ( /\ proc[p].orch = "syncUserComplete"
          /\ "profile" \in Range(proc[p].writes)
          /\ Len(proc[p].steps) >= 2
          /\ ~ proc[p].dbFailed )
        => proc[p].thrown # "PreconditionFailed"

\* the request of p got past the read of the record to the refresh decision
ReachedDecision(p) ==
    proc[p].orchCalls >= 1 \/ proc[p].response.xcache = "HIT"

(* C36: a getUser, getEvents or getRepositories request that reached the   *)
(* refresh decision, whatever its answer, has added exactly one to the sum  *)
(* of the hit, miss and stale counters.                                     *)
C36_OneCacheOperationPerRequest ==
    \A p \in Procs :
        ( /\ CacheRequest(p)
          /\ ReachedDecision(p) )
        => Recorded(p, "hit") + Recorded(p, "miss") + Recorded(p, "stale") = 1

(* C37: when getEvents or getRepositories found no record and the          *)
(* syncUserComplete it called has returned, the request is answered 200    *)
(* MISS, a clearUserCache for the same handle overlapping it in any way    *)
(* (the store answering every call).                                       *)
C37_RereadFindsSubject ==
    \A p \in Procs :
        ( /\ Answered(p)
          /\ proc[p].handler \in ListHandlers
          /\ proc[p].path = "norecord"
          /\ proc[p].orchOutcome = "returned"
          /\ ~ proc[p].dbFailed )
        => /\ proc[p].response.status = 200
           /\ proc[p].response.xcache = "MISS"

\* every row of the table references a row of users
OwnedBySubject(T) == \A x \in T : \E u \in users : u.id = x.user_id

(* C38: in every state, after syncs and cache clears in any order, every   *)
(* row of repositories, events and sync_logs has the id of a row of users  *)
(* as its user_id.                                                         *)
C38_NoOrphans ==
    /\ OwnedBySubject(repositories)
    /\ OwnedBySubject(events)
    /\ OwnedBySubject(sync_logs)

\* a subject with repositories, events and log entries was cleared and
\* synced again under a new id
C38_Witness ==
    /\ Cleared >= 1
    /\ \E u \in users : u.id = 2
    /\ repositories # {}
    /\ events # {}
    /\ sync_logs # {}
    /\ \A p \in Procs : proc[p].pc \in {"idle", "done"}

\* the calls a request can still make, at most, before it is answered
Rank(l) ==
    CASE l.pc = "ctl_read" -> 17
      [] l.pc = "sp_fetch" -> 16
      [] l.pc = "sp_upsert" -> 15
      [] l.pc = "sp_log" -> 14
      [] l.pc = "sr_getuser" -> 13
      [] l.pc = "sr_createlog" -> 12
      [] l.pc = "sr_fetch" -> 11
      [] l.pc = "sr_upsert" -> 10
      [] l.pc = "sr_updlog" -> 9
      [] l.pc = "sr_catch" -> 8
      [] l.pc = "se_getuser" -> 7
      [] l.pc = "se_createlog" -> 6
      [] l.pc = "se_fetch" -> 5
      [] l.pc = "se_insert" -> 4
      [] l.pc \in {"se_catch", "ctl_reread"} -> 3
      [] l.pc = "ctl_data" -> IF l.path = "stale" THEN 1 ELSE 2
      [] OTHER -> 0

\* the request of p is under way
Running(p) ==
    /\ proc[p].handler \in CacheHandlers
    /\ proc[p].pc \notin {"idle", "done"}

\* the response of a getUser, getEvents or getRepositories request
OneResponse(r) ==
    \/ /\ r.status = 200
       /\ r.xcache \in {"HIT", "MISS", "STALE"}
    \/ /\ r.status \in {400, 404, 429, 500}
       /\ r.xcache = "none"
       /\ r.data = <<>>
       /\ ~ r.warning

(* C39: a getUser, getEvents or getRepositories request that is under way  *)
(* always has a next step, and each of its steps (a gateway or store call  *)
(* returning or raising) lowers the number of calls it can still make, so  *)
(* it is answered after finitely many calls; it has a response exactly     *)
(* when it is over, the response is a 200 tagged HIT, MISS or STALE or one *)
(* error response, and it is not sent a second time.                       *)
C39_AnsweredOnce ==
    /\ [] ( \A p \in Procs : Running(p) => ENABLED Step(p) )
    /\ [][ \A p \in Procs :
              (Running(p) /\ proc'[p] # proc[p])
              => /\ Rank(proc'[p]) < Rank(proc[p])
                 /\ proc[p].response = NoResponse ]_vars
    /\ [] ( \A p \in Procs :
              proc[p].handler \in CacheHandlers
              => /\ (proc[p].pc = "done") <=> (proc[p].response # NoResponse)
                 /\ proc[p].pc = "done" => OneResponse(proc[p].response) )

\* the read that serves the stale fallback failed: one error response
C39_Witness ==
    \E p \in Procs :
        /\ CacheRequest(p)
        /\ proc[p].handler \in ListHandlers
        /\ proc[p].path = "stale"
        /\ proc[p].gwFailed # "none"
        /\ proc[p].dbFailed
        /\ proc[p].response.status = 500
        /\ proc[p].response.xcache = "none"

====
